---- MODULE Spec2Model ----
(***************************************************************************)
(* Model of omni/native/clift/src/lib.rs: the three C entry points          *)
(* (omni_clift_compile_json, omni_clift_compile_to_object,                  *)
(* omni_clift_compile_to_object_with_opt) and the MIR-to-object pipeline    *)
(* behind them (compile_mir_to_object_with_opt, compile_function,           *)
(* omni_type_to_cranelift, compile_instruction, compile_terminator).        *)
(*                                                                          *)
(* Text that the code inspects character by character (type names, literal  *)
(* payloads, block names) is a sequence of one-character strings.  Text     *)
(* that the code only compares as a whole (opcodes, operand kinds, function *)
(* names, optimization tokens) is a TLA+ string.  Option<T> is a sequence   *)
(* of length 0 (None) or 1 (Some).                                          *)
(*                                                                          *)
(* Cranelift and serde_json are libraries outside the repository.  The      *)
(* model keeps what the code tells them to do (the blocks created, the      *)
(* operations emitted into each block, the level configured) and treats     *)
(* every library result the code handles with `?` or map_err as an outcome  *)
(* of either kind.  flag_builder.set(..).unwrap() is taken to succeed, as   *)
(* the unwrap asserts.                                                      *)
(***************************************************************************)
EXTENDS Integers, Sequences, FiniteSets, TLC

VARIABLES
    pc,          \* position of the call: idle, decode, configure, funcs, body, finalize, emit, ret, done
    entry,       \* the entry point that was called
    args,        \* the raw arguments of the call: [mir, out, opt]
    before,      \* what the output path held before the call
    file,        \* what the output path holds now
    writes,      \* number of std::fs::write calls that succeeded on the output path
    mir_module,  \* the decoded MirModule (Option)
    opt_level,   \* the &str handed to compile_mir_to_object_with_opt
    level,       \* the opt_level set on the flag builder (Option)
    fi,          \* index of the function compile_mir_to_object_with_opt is at
    bi,          \* index of the MIR block compile_function is at
    ii,          \* index of the instruction within that block
    sig,         \* Signature of the function being compiled: [params, returns]
    bblocks,     \* backend blocks of the FunctionBuilder: bblocks[k+1] is the code of Block k
    block_map,   \* HashMap<String, Block> of compile_function
    defined,     \* names defined in the ObjectModule, in order
    result,      \* Result<(), CompileError> of compile_mir_to_object_with_opt
    status       \* c_int returned to the caller (Option)

vars == <<pc, entry, args, before, file, writes, mir_module, opt_level, level,
          fi, bi, ii, sig, bblocks, block_map, defined, result, status>>

-----------------------------------------------------------------------------
(* Bounds of the model. *)

MaxFuncs == 2

-----------------------------------------------------------------------------
(* Text helpers. *)

None == <<>>
Some(x) == <<x>>

Digits == {"0", "1", "2", "3", "4", "5", "6", "7", "8", "9"}

DigitVal(c) ==
    CASE c = "0" -> 0 [] c = "1" -> 1 [] c = "2" -> 2 [] c = "3" -> 3 [] c = "4" -> 4
      [] c = "5" -> 5 [] c = "6" -> 6 [] c = "7" -> 7 [] c = "8" -> 8 [] c = "9" -> 9

AllDigits(s) == \A i \in 1..Len(s) : s[i] \in Digits

\* checked accumulation of i32::from_str: None on overflow
RECURSIVE AccI32(_, _, _)
AccI32(s, acc, neg) ==
    IF s = <<>> THEN Some(acc)
    ELSE LET d == DigitVal(Head(s))
             m == IF neg THEN 0 - acc ELSE acc
             fits == IF neg /\ d = 0 THEN m <= 214748364
                     ELSE IF neg THEN m <= (2147483647 - (d - 1)) \div 10
                     ELSE m <= (2147483647 - d) \div 10
         IN  IF ~fits THEN None
             ELSE AccI32(Tail(s), IF neg THEN acc * 10 - d ELSE acc * 10 + d, neg)

StartsWith(s, c) == Len(s) > 0 /\ s[1] = c

Lower(c) ==
    CASE c = "I" -> "i" [] c = "N" -> "n" [] c = "F" -> "f" [] c = "A" -> "a"
      [] c = "T" -> "t" [] c = "Y" -> "y" [] OTHER -> c

LowerAll(s) == [i \in 1..Len(s) |-> Lower(s[i])]

-----------------------------------------------------------------------------
(* Literal parsing: str::parse::<i32>, ::<f64>, ::<bool>.  Each returns an   *)
(* Option: None for Err.                                                    *)

ParseI32(s) ==
    LET body == IF StartsWith(s, "+") \/ StartsWith(s, "-") THEN Tail(s) ELSE s
    IN  IF body = <<>> \/ ~AllDigits(body) THEN None
        ELSE AccI32(body, 0, StartsWith(s, "-"))

ParseBool(s) ==
    IF s = <<"t", "r", "u", "e">> THEN Some(TRUE)
    ELSE IF s = <<"f", "a", "l", "s", "e">> THEN Some(FALSE)
    ELSE None

\* [digits][.digits][(e|E)[sign]digits], with at least one mantissa digit
IsDecimalFloat(s) ==
    \E i \in 0..Len(s), j \in 0..Len(s), k \in 0..Len(s) :
        /\ i <= j /\ j <= k
        /\ AllDigits(SubSeq(s, 1, i))
        /\ \/ j = i
           \/ j > i /\ s[i + 1] = "." /\ AllDigits(SubSeq(s, i + 2, j))
        /\ i + (IF j > i THEN j - i - 1 ELSE 0) >= 1
        /\ k = Len(s)
        /\ \/ k = j
           \/ /\ k > j
              /\ s[j + 1] \in {"e", "E"}
              /\ LET ex == SubSeq(s, j + 2, k)
                     ed == IF StartsWith(ex, "+") \/ StartsWith(ex, "-") THEN Tail(ex) ELSE ex
                 IN  ed # <<>> /\ AllDigits(ed)

ParseF64(s) ==
    LET body == IF StartsWith(s, "+") \/ StartsWith(s, "-") THEN Tail(s) ELSE s
    IN  IF \/ LowerAll(body) \in {<<"i", "n", "f">>, <<"n", "a", "n">>,
                                  <<"i", "n", "f", "i", "n", "i", "t", "y">>}
           \/ IsDecimalFloat(body)
        THEN Some(s)
        ELSE None

-----------------------------------------------------------------------------
(* CompileError and Result. *)

Ok == [kind |-> "Ok", msg |-> <<>>]
Err(kind, msg) == [kind |-> kind, msg |-> msg]
NoResult == [kind |-> "none", msg |-> <<>>]

-----------------------------------------------------------------------------
(* Type Mapper. *)

T_int == <<"i", "n", "t">>
T_float == <<"f", "l", "o", "a", "t">>
T_double == <<"d", "o", "u", "b", "l", "e">>
T_bool == <<"b", "o", "o", "l">>
T_void == <<"v", "o", "i", "d">>
T_string == <<"s", "t", "r", "i", "n", "g">>
T_voidptr == <<"v", "o", "i", "d", "*">>

\* faulty variant: no test for the pointer sigil: every other name is taken as a pointer
omni_type_to_cranelift_AnyPointer(omni_type) ==
    CASE omni_type = T_int -> [ok |-> TRUE, ty |-> "I32", err |-> NoResult]
      [] omni_type \in {T_float, T_double} -> [ok |-> TRUE, ty |-> "F64", err |-> NoResult]
      [] omni_type = T_bool -> [ok |-> TRUE, ty |-> "I8", err |-> NoResult]
      [] omni_type = T_void -> [ok |-> TRUE, ty |-> "I32", err |-> NoResult]
      [] OTHER -> [ok |-> TRUE, ty |-> "I64", err |-> NoResult]

omni_type_to_cranelift(omni_type) ==
    CASE omni_type = T_int -> [ok |-> TRUE, ty |-> "I32", err |-> NoResult]
      [] omni_type \in {T_float, T_double} -> [ok |-> TRUE, ty |-> "F64", err |-> NoResult]
      [] omni_type = T_bool -> [ok |-> TRUE, ty |-> "I8", err |-> NoResult]
      [] omni_type = T_void -> [ok |-> TRUE, ty |-> "I32", err |-> NoResult]
      [] omni_type = T_string -> [ok |-> TRUE, ty |-> "I64", err |-> NoResult]
      [] omni_type = T_voidptr -> [ok |-> TRUE, ty |-> "I64", err |-> NoResult]
      [] OTHER ->
            IF StartsWith(omni_type, "*")
            THEN [ok |-> TRUE, ty |-> "I64", err |-> NoResult]
            ELSE [ok |-> FALSE, ty |-> "",
                  err |-> Err("MirParse", <<"Unsupported type: ">> \o omni_type)]

-----------------------------------------------------------------------------
(* Instruction Lowering.  The result is [ok, ops, err]: the operations the   *)
(* call emits into the current block, or the error it returns.  The value of *)
(* every emitted operation is dropped by the code (`let _val = ...`).        *)

Emitted(ops) == [ok |-> TRUE, ops |-> ops, err |-> NoResult]
Failed(msg) == [ok |-> FALSE, ops |-> <<>>, err |-> Err("MirParse", msg)]

Iconst(ty, imm) == [op |-> "iconst", ty |-> ty, imm |-> imm, text |-> <<>>, dest |-> None]
F64const(text) == [op |-> "f64const", ty |-> "F64", imm |-> 0, text |-> text, dest |-> None]
Return0 == [op |-> "return", ty |-> "", imm |-> 0, text |-> <<>>, dest |-> None]
Jump(block) == [op |-> "jump", ty |-> "", imm |-> 0, text |-> <<>>, dest |-> Some(block)]
Trap == [op |-> "trap", ty |-> "", imm |-> 0, text |-> <<>>, dest |-> None]

compile_instruction(mir_inst) ==
    CASE mir_inst.op = "const" ->
            IF mir_inst.operands = <<>>
            THEN Failed(<<"const instruction requires operand">>)
            ELSE LET operand == mir_inst.operands[1] IN
                 IF operand.kind # "literal"
                 THEN Failed(<<"const instruction requires literal operand">>)
                 ELSE IF operand.literal = None
                 THEN Failed(<<"Expected literal value">>)
                 ELSE LET literal == operand.literal[1] IN
                      CASE mir_inst.inst_type = T_int ->
                              IF ParseI32(literal) = None
                              THEN Failed(<<"Invalid integer literal">>)
                              ELSE Emitted(<<Iconst("I32", ParseI32(literal)[1])>>)
                        [] mir_inst.inst_type \in {T_float, T_double} ->
                              IF ParseF64(literal) = None
                              THEN Failed(<<"Invalid float literal">>)
                              ELSE Emitted(<<F64const(ParseF64(literal)[1])>>)
                        [] mir_inst.inst_type = T_bool ->
                              IF ParseBool(literal) = None
                              THEN Failed(<<"Invalid bool literal">>)
                              ELSE Emitted(<<Iconst("I8", IF ParseBool(literal)[1] THEN 1 ELSE 0)>>)
                        [] OTHER ->
                              Failed(<<"Unsupported const type: ">> \o mir_inst.inst_type)
      [] mir_inst.op \in {"add", "sub", "mul", "div"} ->
            IF Len(mir_inst.operands) < 2
            THEN Failed(<<mir_inst.op, " instruction requires 2 operands">>)
            ELSE Emitted(<<Iconst("I32", 0)>>)
      [] mir_inst.op = "call" ->
            IF mir_inst.operands = <<>>
            THEN Failed(<<"call instruction requires operands">>)
            ELSE Emitted(<<Iconst("I32", 0)>>)
      [] mir_inst.op = "cast" ->
            IF mir_inst.operands = <<>>
            THEN Failed(<<"cast instruction requires operand">>)
            ELSE Emitted(<<Iconst("I32", 0)>>)
      [] OTHER -> Failed(<<"Unsupported instruction: ", mir_inst.op>>)

-----------------------------------------------------------------------------
(* Terminator Lowering.  The block map is passed and not read (`_block_map`). *)

compile_terminator(terminator, map) ==
    CASE terminator.op = "ret" -> Emitted(<<Return0>>)
      [] terminator.op = "br" ->
            IF terminator.operands = <<>>
            THEN Failed(<<"br terminator requires target block">>)
            ELSE Emitted(<<Jump(0)>>)
      [] terminator.op \in {"brz", "brnz"} ->
            IF Len(terminator.operands) < 2
            THEN Failed(<<"conditional branch requires condition and target">>)
            ELSE Emitted(<<Jump(0)>>)
      [] terminator.op = "trap" -> Emitted(<<Trap>>)
      [] OTHER -> Failed(<<"Unsupported terminator: ", terminator.op>>)

-----------------------------------------------------------------------------
(* Object Emitter: normalisation of the optimization token.                  *)

\* faulty variant: the one-letter alias `s` is missing from the size arm
NormalizeOptLevel_NoShortSize(token) ==
    CASE token \in {"none", "0", "O0"} -> "none"
      [] token \in {"speed", "1", "O1"} -> "speed"
      [] token \in {"speed_and_size", "2", "O2"} -> "speed_and_size"
      [] token \in {"best", "3", "O3"} -> "best"
      [] token \in {"size", "Os"} -> "size"
      [] OTHER -> "speed"

NormalizeOptLevel(token) ==
    CASE token \in {"none", "0", "O0"} -> "none"
      [] token \in {"speed", "1", "O1"} -> "speed"
      [] token \in {"speed_and_size", "2", "O2"} -> "speed_and_size"
      [] token \in {"best", "3", "O3"} -> "best"
      [] token \in {"size", "s", "Os"} -> "size"
      [] OTHER -> "speed"

-----------------------------------------------------------------------------
(* MIR text.  A payload is a sequence of tokens: whitespace, one well-formed *)
(* module document, or a document that does not match the module shape.      *)

Ws == [tok |-> "ws", m |-> <<>>]
Junk == [tok |-> "junk", m |-> <<>>]
Doc(m) == [tok |-> "doc", m |-> m]

\* str::trim().is_empty()
TrimIsEmpty(payload) == \A i \in 1..Len(payload) : payload[i].tok = "ws"

\* serde_json::from_str::<MirModule>: one value, whitespace allowed around it
from_str(payload) ==
    LET rest == SelectSeq(payload, LAMBDA t : t.tok # "ws")
    IN  IF Len(rest) = 1 /\ rest[1].tok = "doc" THEN Some(rest[1].m) ELSE None

-----------------------------------------------------------------------------
(* The MIR modules the calls are made with. *)

Lit(text, ty) == [kind |-> "literal", value |-> None, literal |-> Some(text), operand_type |-> ty]
Val(id, ty) == [kind |-> "value", value |-> Some(id), literal |-> None, operand_type |-> ty]
Inst(id, op, ty, operands) == [id |-> id, op |-> op, inst_type |-> ty, operands |-> operands]
Term(op, operands) == [op |-> op, operands |-> operands]
Block(name, instructions, terminator) ==
    [name |-> name, instructions |-> instructions, terminator |-> terminator]
Param(name, ty, id) == [name |-> name, param_type |-> ty, id |-> id]
Fn(name, ret, params, blocks) ==
    [name |-> name, return_type |-> ret, params |-> params, blocks |-> blocks]

N_entry == <<"e", "n", "t", "r", "y">>
N_exit == <<"e", "x", "i", "t">>
N_nowhere == <<"n", "o", "w", "h", "e", "r", "e">>
T_widget == <<"w", "i", "d", "g", "e", "t">>
T_ptr == <<"*", "T">>
Ret0 == Term("ret", <<>>)

\* the scenario of the specification: one block, `ret` with no operands
F_id == Fn("id", T_int, <<>>, <<Block(N_entry, <<>>, Ret0)>>)
\* an undeclared return type
F_widget == Fn("w", T_widget, <<>>, <<Block(N_entry, <<>>, Ret0)>>)
\* an undeclared parameter type after a pointer parameter
F_badparam ==
    Fn("bp", T_float, <<Param("p", T_ptr, 0), Param("q", T_widget, 1)>>,
       <<Block(N_entry, <<>>, Ret0)>>)
\* parameters of several types; every value operand is defined before its use
F_arith ==
    Fn("arith", T_void,
       <<Param("x", T_int, 0), Param("s", T_string, 1), Param("b", T_bool, 2),
         Param("v", T_voidptr, 3), Param("d", T_double, 4)>>,
       <<Block(N_entry,
               <<Inst(5, "const", T_int, <<Lit(<<"-", "7">>, T_int)>>),
                 Inst(6, "add", T_int, <<Val(0, T_int), Val(5, T_int)>>),
                 Inst(7, "const", T_double, <<Lit(<<"1", ".", "5">>, T_double)>>),
                 Inst(8, "cast", T_int, <<Val(7, T_double)>>)>>,
               Term("ret", <<Val(6, T_int)>>))>>)
\* a forward reference: instruction 1 uses the id of instruction 2
F_fwd ==
    Fn("fwd", T_int, <<>>,
       <<Block(N_entry,
               <<Inst(1, "mul", T_int, <<Val(2, T_int), Lit(<<"3">>, T_int)>>),
                 Inst(2, "const", T_int, <<Lit(<<"1">>, T_int)>>)>>,
               Term("ret", <<Val(1, T_int)>>))>>)
\* a terminator that returns an id nothing defines
F_undef == Fn("undef", T_int, <<>>, <<Block(N_entry, <<>>, Term("ret", <<Val(9, T_int)>>))>>)
\* a jump to another block of the function
F_br ==
    Fn("br", T_float, <<>>,
       <<Block(N_entry, <<>>, Term("br", <<Lit(N_exit, T_void)>>)),
         Block(N_exit, <<>>, Ret0)>>)
\* a jump to a block the function does not have
F_br_missing ==
    Fn("brm", T_int, <<>>, <<Block(N_entry, <<>>, Term("br", <<Lit(N_nowhere, T_void)>>))>>)
\* conditional jumps: brz to a block of the function, brnz to a missing one
F_brz ==
    Fn("brz", <<"*">>, <<>>,
       <<Block(N_entry,
               <<Inst(0, "const", T_bool, <<Lit(<<"t", "r", "u", "e">>, T_bool)>>)>>,
               Term("brz", <<Val(0, T_bool), Lit(N_exit, T_void)>>)),
         Block(N_exit, <<>>, Term("brnz", <<Val(0, T_bool), Lit(N_nowhere, T_void)>>))>>)
\* two blocks of one name
F_dup ==
    Fn("dup", T_int, <<>>,
       <<Block(N_entry, <<>>, Ret0),
         Block(N_entry, <<Inst(0, "const", T_int, <<Lit(<<"1">>, T_int)>>)>>, Term("trap", <<>>))>>)
\* an unsupported instruction opcode
F_badop ==
    Fn("badop", T_int, <<>>,
       <<Block(N_entry, <<Inst(0, "frobnicate", T_int, <<>>)>>, Ret0)>>)
\* the second scenario of the specification: an unsupported terminator opcode
F_badterm == Fn("id", T_int, <<>>, <<Block(N_entry, <<>>, Term("frobnicate", <<>>))>>)
\* a literal that does not parse under its type (one past i32::MAX)
F_badlit ==
    Fn("badlit", T_int, <<>>,
       <<Block(N_entry,
               <<Inst(0, "const", T_int, <<Lit(<<"2", "1", "4", "7", "4", "8", "3", "6", "4", "7">>, T_int)>>),
                 Inst(1, "const", T_int, <<Lit(<<"2", "1", "4", "7", "4", "8", "3", "6", "4", "8">>, T_int)>>)>>,
               Ret0)>>)
\* a missing operand, in an instruction
F_short ==
    Fn("short", T_int, <<>>,
       <<Block(N_entry, <<Inst(0, "sub", T_int, <<Lit(<<"1">>, T_int)>>)>>, Ret0)>>)
\* a missing operand, in a terminator
F_br_short == Fn("brs", T_int, <<>>, <<Block(N_entry, <<>>, Term("br", <<>>))>>)
\* no block at all
F_noblocks == Fn("nb", T_int, <<>>, <<>>)

Functions ==
    {F_id, F_widget, F_badparam, F_arith, F_fwd, F_undef, F_br, F_br_missing, F_brz,
     F_dup, F_badop, F_badterm, F_badlit, F_short, F_br_short, F_noblocks}

Modules == UNION {[1..n -> Functions] : n \in 0..MaxFuncs}

-----------------------------------------------------------------------------
(* Arguments of the C entry points.  A pointer argument is null, a C string  *)
(* that is not UTF-8, or text.                                               *)

NullMir == [kind |-> "null", text |-> <<>>]
NonTextMir == [kind |-> "nontext", text |-> <<>>]
TextMir(payload) == [kind |-> "text", text |-> payload]

NullStr == [kind |-> "null", text |-> ""]
NonTextStr == [kind |-> "nontext", text |-> ""]
TextStr(t) == [kind |-> "text", text |-> t]
NotPassed == [kind |-> "absent", text |-> ""]

M_id == <<F_id>>

\* payloads that are not one bare module document
OddPayloads ==
    {<<>>, <<Ws>>, <<Ws, Ws>>, <<Junk>>, <<Ws, Junk>>, <<Doc(M_id), Doc(M_id)>>,
     <<Ws, Doc(M_id), Ws>>}

MirArgs == {NullMir, NonTextMir} \cup {TextMir(p) : p \in OddPayloads}
                                 \cup {TextMir(<<Doc(m)>>) : m \in Modules}

\* MIR arguments that do not range over every module
FewMirArgs == {NullMir, NonTextMir} \cup {TextMir(p) : p \in OddPayloads}
                                    \cup {TextMir(<<Doc(m)>>) : m \in {M_id, <<F_widget>>, <<F_id, F_badop>>}}

\* std::fs::write succeeds on the first path and fails on the second
WritablePath == "out/mod.o"
UnwritablePath == "missing-dir/mod.o"
OutArgs == {NullStr, NonTextStr, TextStr(WritablePath), TextStr(UnwritablePath)}

OptTokens ==
    {"none", "0", "O0", "speed", "1", "O1", "speed_and_size", "2", "O2",
     "best", "3", "O3", "size", "s", "Os", "fast", "", "SPEED", "o2"}
OptArgs == {NullStr, NonTextStr} \cup {TextStr(t) : t \in OptTokens}

Absent == [exists |-> FALSE, data |-> <<>>]
Stale == [exists |-> TRUE, data |-> <<"stale">>]
Object(symbols) == [exists |-> TRUE, data |-> <<"object">> \o symbols]

-----------------------------------------------------------------------------
(* Initial state: no call made yet; the output path holds nothing or an      *)
(* older file.                                                               *)

Init ==
    /\ pc = "idle"
    /\ entry = "none"
    /\ args = [mir |-> NullMir, out |-> NotPassed, opt |-> NotPassed]
    /\ before \in {Absent, Stale}
    /\ file = before
    /\ writes = 0
    /\ mir_module = None
    /\ opt_level = ""
    /\ level = None
    /\ fi = 0
    /\ bi = 0
    /\ ii = 0
    /\ sig = [params |-> <<>>, returns |-> <<>>]
    /\ bblocks = <<>>
    /\ block_map = <<>>
    /\ defined = <<>>
    /\ result = NoResult
    /\ status = None

pipeline == <<mir_module, level, fi, bi, ii, sig, bblocks, block_map, defined, result>>

\* an entry point returns `code` without entering the pipeline
ReturnEarly(code) ==
    /\ pc' = "done"
    /\ status' = Some(code)
    /\ UNCHANGED <<opt_level, pipeline, before, file, writes>>

\* an entry point calls compile_mir_to_object_with_opt with `token`
EnterPipeline(token) ==
    /\ pc' = "decode"
    /\ opt_level' = token
    /\ UNCHANGED <<status, pipeline, before, file, writes>>

-----------------------------------------------------------------------------
(* The entry points. *)

omni_clift_compile_json(mir_json) ==
    /\ pc = "idle"
    /\ entry' = "compile_json"
    /\ args' = [mir |-> mir_json, out |-> NotPassed, opt |-> NotPassed]
    /\ IF mir_json.kind = "null" THEN ReturnEarly(0 - 1)
       ELSE IF mir_json.kind = "nontext" THEN ReturnEarly(0 - 2)
       ELSE IF TrimIsEmpty(mir_json.text) THEN ReturnEarly(0 - 3)
       ELSE IF from_str(mir_json.text) # None THEN ReturnEarly(0)
       ELSE ReturnEarly(0 - 4)

omni_clift_compile_to_object(mir_json, output_path) ==
    /\ pc = "idle"
    /\ entry' = "compile_to_object"
    /\ args' = [mir |-> mir_json, out |-> output_path, opt |-> NotPassed]
    /\ IF mir_json.kind = "null" \/ output_path.kind = "null" THEN ReturnEarly(0 - 1)
       ELSE IF mir_json.kind = "nontext" THEN ReturnEarly(0 - 2)
       ELSE IF output_path.kind = "nontext" THEN ReturnEarly(0 - 3)
       ELSE EnterPipeline("speed")

omni_clift_compile_to_object_with_opt(mir_json, output_path, opt) ==
    /\ pc = "idle"
    /\ entry' = "compile_to_object_with_opt"
    /\ args' = [mir |-> mir_json, out |-> output_path, opt |-> opt]
    /\ IF mir_json.kind = "null" \/ output_path.kind = "null" \/ opt.kind = "null"
       THEN ReturnEarly(0 - 1)
       ELSE IF mir_json.kind = "nontext" THEN ReturnEarly(0 - 2)
       ELSE IF output_path.kind = "nontext" THEN ReturnEarly(0 - 3)
       ELSE IF opt.kind = "nontext" THEN ReturnEarly(0 - 4)
       ELSE EnterPipeline(opt.text)

\* the `match` that turns the pipeline's Result into the status
StatusOf(e, r) ==
    IF r.kind = "Ok" THEN 0
    ELSE IF e = "compile_to_object" THEN 0 - 4
    ELSE 0 - 5

Return ==
    /\ pc = "ret"
    /\ pc' = "done"
    /\ status' = Some(StatusOf(entry, result))
    /\ UNCHANGED <<entry, args, opt_level, pipeline, before, file, writes>>

-----------------------------------------------------------------------------
(* compile_mir_to_object_with_opt, step by step. *)

funcs == IF mir_module = None THEN <<>> ELSE mir_module[1].functions
mir_func == funcs[fi]
mir_block == mir_func.blocks[bi]

\* compile_mir_to_object_with_opt returns Err(e) through `?`
Fail(e) ==
    /\ pc' = "ret"
    /\ result' = e

\* head of the loop over the functions, at function k
LoopAt(k) ==
    /\ fi' = k
    /\ pc' = IF k > Len(funcs) THEN "emit" ELSE "enter"

Decode ==
    /\ pc = "decode"
    /\ LET decoded == from_str(args.mir.text) IN
       IF decoded = None
       THEN /\ Fail(Err("InvalidJson", <<"serde_json error">>))
            /\ UNCHANGED mir_module
       ELSE /\ mir_module' = Some([functions |-> decoded[1]])
            /\ pc' = "configure"
            /\ UNCHANGED result
    /\ UNCHANGED <<entry, args, opt_level, level, fi, bi, ii, sig, bblocks, block_map,
                   defined, status, before, file, writes>>

\* the flag builder, the host ISA and the ObjectModule
Configure ==
    /\ pc = "configure"
    /\ level' = Some(NormalizeOptLevel(opt_level))
    /\ \E backend_ok \in BOOLEAN :
          IF backend_ok
          THEN LoopAt(1) /\ UNCHANGED result
          ELSE Fail(Err("CraneliftError", <<"isa">>)) /\ UNCHANGED fi
    /\ UNCHANGED <<entry, args, opt_level, mir_module, bi, ii, sig, bblocks, block_map,
                   defined, status, before, file, writes>>

\* first error of omni_type_to_cranelift over the parameters, then the return type
RECURSIVE SignatureOf(_, _)
SignatureOf(types, acc) ==
    IF types = <<>> THEN [ok |-> TRUE, tys |-> acc, err |-> NoResult]
    ELSE LET t == omni_type_to_cranelift(Head(types)) IN
         IF t.ok THEN SignatureOf(Tail(types), Append(acc, t.ty))
         ELSE [ok |-> FALSE, tys |-> acc, err |-> t.err]

EmptyBlock(params) == [params |-> params, code |-> <<>>]

\* block_map after `insert` for every MIR block in order: a later insert of a
\* name replaces the earlier one
BlockMapOf(blocks) ==
    [nm \in {blocks[i].name : i \in 1..Len(blocks)} |->
        CHOOSE k \in 0..(Len(blocks) - 1) :
            /\ blocks[k + 1].name = nm
            /\ \A j \in (k + 2)..Len(blocks) : blocks[j].name # nm]

\* compile_function up to the loop over the blocks: signature, entry block,
\* one backend block per further MIR block, block_map
BeginFunction ==
    /\ pc = "enter"
    /\ LET f == mir_func
           types == [i \in 1..Len(f.params) |-> f.params[i].param_type] \o <<f.return_type>>
           s == SignatureOf(types, <<>>)
           nparams == Len(f.params)
       IN  IF ~s.ok
           THEN /\ Fail(s.err)
                /\ UNCHANGED <<sig, bblocks, block_map, bi, ii>>
           ELSE /\ sig' = [params |-> SubSeq(s.tys, 1, nparams),
                           returns |-> SubSeq(s.tys, nparams + 1, nparams + 1)]
                /\ bblocks' = <<EmptyBlock(SubSeq(s.tys, 1, nparams))>> \o
                              [i \in 1..(Len(f.blocks) - 1) |-> EmptyBlock(<<>>)]
                /\ block_map' = BlockMapOf(f.blocks)
                /\ bi' = 1
                /\ ii' = 1
                /\ pc' = IF f.blocks = <<>> THEN "finalize" ELSE "body"
                /\ UNCHANGED result
    /\ UNCHANGED <<entry, args, opt_level, mir_module, level, fi, defined, status,
                   before, file, writes>>

\* builder.ins() on the block switched to: the operations go to its end
EmitInto(block, ops) ==
    bblocks' = [bblocks EXCEPT ![block + 1].code = @ \o ops]

CompileInstruction ==
    /\ pc = "body"
    /\ ii <= Len(mir_block.instructions)
    /\ LET block == block_map[mir_block.name]
           r == compile_instruction(mir_block.instructions[ii])
       IN  IF r.ok
           THEN /\ EmitInto(block, r.ops)
                /\ ii' = ii + 1
                /\ UNCHANGED <<pc, result>>
           ELSE /\ Fail(r.err)
                /\ UNCHANGED <<bblocks, ii>>
    /\ UNCHANGED <<entry, args, opt_level, mir_module, level, fi, bi, sig, block_map,
                   defined, status, before, file, writes>>

CompileTerminator ==
    /\ pc = "body"
    /\ ii > Len(mir_block.instructions)
    /\ LET block == block_map[mir_block.name]
           r == compile_terminator(mir_block.terminator, block_map)
       IN  IF r.ok
           THEN /\ EmitInto(block, r.ops)
                /\ bi' = bi + 1
                /\ ii' = 1
                /\ pc' = IF bi = Len(mir_func.blocks) THEN "finalize" ELSE "body"
                /\ UNCHANGED result
           ELSE /\ Fail(r.err)
                /\ UNCHANGED <<bblocks, bi, ii>>
    /\ UNCHANGED <<entry, args, opt_level, mir_module, level, fi, sig, block_map,
                   defined, status, before, file, writes>>

\* faulty variant: the object is written out after every function that was defined
FinishFunction_WriteEach ==
    /\ pc = "finalize"
    /\ \E backend \in {"ok", "declare failed", "define failed"} :
          IF backend = "ok"
          THEN /\ defined' = Append(defined, mir_func.name)
               /\ LoopAt(fi + 1)
               /\ file' = IF args.out.text = WritablePath THEN Object(defined') ELSE file
               /\ UNCHANGED result
          ELSE /\ Fail(Err("CraneliftError", <<backend>>))
               /\ UNCHANGED <<defined, fi, file>>
    /\ UNCHANGED <<entry, args, opt_level, mir_module, level, bi, ii, sig, bblocks,
                   block_map, status, before, writes>>

\* builder.finalize, declare_function, define_function
FinishFunction ==
    /\ pc = "finalize"
    /\ \E backend \in {"ok", "declare failed", "define failed"} :
          IF backend = "ok"
          THEN /\ defined' = Append(defined, mir_func.name)
               /\ LoopAt(fi + 1)
               /\ UNCHANGED result
          ELSE /\ Fail(Err("CraneliftError", <<backend>>))
               /\ UNCHANGED <<defined, fi>>
    /\ UNCHANGED <<entry, args, opt_level, mir_module, level, bi, ii, sig, bblocks,
                   block_map, status, before, file, writes>>

\* object_module.finish, emit, std::fs::write
EmitObject ==
    /\ pc = "emit"
    /\ pc' = "ret"
    /\ \E emitted \in BOOLEAN :
          IF ~emitted
          THEN /\ result' = Err("CraneliftError", <<"emit">>)
               /\ UNCHANGED <<file, writes>>
          ELSE IF args.out.text = WritablePath
          THEN /\ file' = Object(defined)
               /\ writes' = writes + 1
               /\ result' = Ok
          ELSE /\ result' = Err("IoError", <<"write">>)
               /\ UNCHANGED <<file, writes>>
    /\ UNCHANGED <<entry, args, opt_level, mir_module, level, fi, bi, ii, sig, bblocks,
                   block_map, defined, status, before>>

-----------------------------------------------------------------------------

\* the calls a caller makes, once per behaviour
CallValidate ==
    /\ pc = "idle"
    /\ \E m \in MirArgs : omni_clift_compile_json(m)

CallCompile ==
    /\ pc = "idle"
    /\ \E m \in MirArgs, o \in OutArgs : omni_clift_compile_to_object(m, o)

CallCompileWithOpt ==
    /\ pc = "idle"
    /\ \/ \E m \in FewMirArgs, o \in OutArgs, t \in OptArgs :
             omni_clift_compile_to_object_with_opt(m, o, t)
       \/ \E m \in MirArgs, t \in {"O2", "fast"} :
             omni_clift_compile_to_object_with_opt(m, TextStr(WritablePath), TextStr(t))

Next ==
    \/ CallValidate
    \/ CallCompile
    \/ CallCompileWithOpt
    \/ Decode
    \/ Configure
    \/ BeginFunction
    \/ CompileInstruction
    \/ CompileTerminator
    \/ FinishFunction
    \/ EmitObject
    \/ Return

Spec == Init /\ [][Next]_vars

-----------------------------------------------------------------------------
(* Vocabulary of the properties. *)

CompileEntries == {"compile_to_object", "compile_to_object_with_opt"}

Returned == pc = "done" /\ status # None

\* the call went through serde_json::from_str and got a module
Decoded == mir_module # None

\* null, not valid text, empty or whitespace-only
MalformedMir(a) == a.kind \in {"null", "nontext"} \/ (a.kind = "text" /\ TrimIsEmpty(a.text))

\* the status an entry point returns when the MIR text fails to decode
DecodeFailureStatus(e) ==
    IF e = "compile_json" THEN 0 - 4 ELSE StatusOf(e, Err("InvalidJson", <<>>))

\* the statuses an entry point returns for a null or non-text argument
InvalidArgumentStatuses(e) ==
    IF e = "compile_to_object_with_opt" THEN {0 - 1, 0 - 2, 0 - 3, 0 - 4} ELSE {0 - 1, 0 - 2, 0 - 3}

\* failure classes of the status table
ClassOf(kind) ==
    CASE kind = "Ok" -> "success"
      [] kind = "InvalidJson" -> "invalid-mir"
      [] kind \in {"MirParse", "CraneliftError"} -> "codegen-error"
      [] kind = "IoError" -> "io-error"

ErrorKinds == {"InvalidJson", "MirParse", "CraneliftError", "IoError"}

EndsWith(s, suffix) ==
    /\ Len(s) >= Len(suffix)
    /\ SubSeq(s, Len(s) - Len(suffix) + 1, Len(s)) = suffix

BlockNames(f) == {f.blocks[b].name : b \in 1..Len(f.blocks)}

HasDuplicateBlockNames(f) ==
    \E a, b \in 1..Len(f.blocks) : a # b /\ f.blocks[a].name = f.blocks[b].name

\* the operand of a br/brz/brnz terminator that names its target (Option)
TargetOf(t) ==
    LET k == IF t.op = "br" THEN 1 ELSE 2
    IN  IF t.op \in {"br", "brz", "brnz"} /\ Len(t.operands) >= k
        THEN t.operands[k].literal
        ELSE None

MissingTarget(f, t) == TargetOf(t) # None /\ TargetOf(t)[1] \notin BlockNames(f)

HasMissingTarget(f) == \E b \in 1..Len(f.blocks) : MissingTarget(f, f.blocks[b].terminator)

ValueIds(operands) ==
    {operands[k].value[1] : k \in {j \in 1..Len(operands) :
                                     operands[j].kind = "value" /\ operands[j].value # None}}

\* ids bound before instruction i of block b is lowered (i = Len+1: its terminator)
BoundBefore(f, b, i) ==
    {f.params[p].id : p \in 1..Len(f.params)}
    \cup UNION {{f.blocks[b2].instructions[i2].id :
                    i2 \in 1..(IF b2 < b THEN Len(f.blocks[b2].instructions) ELSE i - 1)} :
                b2 \in 1..b}

\* some value operand of f refers to an id not bound when it is lowered
HasUnresolvedValue(f) ==
    \E b \in 1..Len(f.blocks) :
        LET blk == f.blocks[b]
            n == Len(blk.instructions)
        IN  \/ \E i \in 1..n : ~(ValueIds(blk.instructions[i].operands) \subseteq BoundBefore(f, b, i))
            \/ ~(ValueIds(blk.terminator.operands) \subseteq BoundBefore(f, b, n + 1))

IsTerminator(o) == o.op \in {"return", "jump", "brif", "trap"}

\* the function compile_function is lowering, and the MIR block lowered last
Lowering == pc \in {"body", "finalize"}
JustTerminated == Lowering /\ bi > 1 /\ ii = 1
lowered_block == mir_func.blocks[bi - 1]

-----------------------------------------------------------------------------
(* C1.  For a malformed MIR argument (null, not valid text, empty or          *)
(* whitespace-only) the validate entry point and the compile entry point     *)
(* both return an invalid-argument status, different from the status the     *)
(* entry point returns for a decode failure, and the output path is not      *)
(* written.                                                                  *)

C1_MalformedMirIsInvalidArgument ==
    (Returned /\ entry \in {"compile_json", "compile_to_object"} /\ MalformedMir(args.mir))
        => /\ status[1] \in InvalidArgumentStatuses(entry)
           /\ status[1] # DecodeFailureStatus(entry)
           /\ file = before
           /\ writes = 0

-----------------------------------------------------------------------------
(* C2.  The status of a compile entry point tells the failure class: success *)
(* is 0, and the status returned differs from the status the entry point     *)
(* returns for every other class (invalid-mir, codegen-error, io-error) and  *)
(* from every invalid-argument status.                                       *)

C2_StatusTellsFailureClass ==
    (Returned /\ entry \in CompileEntries /\ result.kind # "none")
        => /\ (status[1] = 0) <=> (result.kind = "Ok")
           /\ status[1] \notin InvalidArgumentStatuses(entry)
           /\ \A k \in ErrorKinds :
                 ClassOf(k) # ClassOf(result.kind) => status[1] # StatusOf(entry, Err(k, <<>>))

-----------------------------------------------------------------------------
(* C3.  The output path is written at most once, and only after              *)
(* compile_function has succeeded for every function of the module in source *)
(* order; when a function fails, whatever its position, the call returns an  *)
(* error and the output path holds what it held before the call.             *)

C3_WriteOnlyAfterAllFunctions ==
    /\ writes <= 1
    /\ (writes > 0 \/ file # before)
          => /\ Decoded
             /\ defined = [k \in 1..Len(funcs) |-> funcs[k].name]
             /\ result = Ok
             /\ file = Object(defined)
    /\ (pc \in {"ret", "done"} /\ Decoded /\ Len(defined) < Len(funcs))
          => /\ result.kind \in ErrorKinds
             /\ file = before
             /\ writes = 0
    /\ (Returned /\ Decoded /\ Len(defined) < Len(funcs)) => status[1] # 0

\* the second function of a module fails after the first was defined, over an older file
C3_Witness ==
    /\ Returned
    /\ Len(funcs) = 2
    /\ Len(defined) = 1
    /\ result.kind = "MirParse"
    /\ before = Stale
    /\ file = Stale

-----------------------------------------------------------------------------
(* C4.  A function with a br, brz or brnz terminator whose target is not the *)
(* name of one of its blocks never gets that terminator lowered and is never *)
(* defined; the call fails and the output path is not written.               *)

C4_MissingTargetFails ==
    /\ JustTerminated => ~MissingTarget(mir_func, lowered_block.terminator)
    /\ \A k \in 1..Len(defined) : ~HasMissingTarget(funcs[k])
    /\ (Returned /\ \E k \in 1..Len(funcs) : HasMissingTarget(funcs[k]))
          => (status[1] # 0 /\ file = before)

-----------------------------------------------------------------------------
(* C5.  Def-before-use: a function in which a value operand refers to an id  *)
(* that is neither a parameter id nor the id of an instruction lowered       *)
(* earlier is never defined; the call fails and the output path is not       *)
(* written.                                                                  *)

C5_DefBeforeUse ==
    /\ \A k \in 1..Len(defined) : ~HasUnresolvedValue(funcs[k])
    /\ (Returned /\ \E k \in 1..Len(funcs) : HasUnresolvedValue(funcs[k]))
          => (status[1] # 0 /\ file = before)

-----------------------------------------------------------------------------
(* C6.  A function with two blocks of one name fails before any instruction  *)
(* or terminator of it is lowered; otherwise block_map holds one entry per   *)
(* MIR block, the entries are distinct backend blocks, and the first MIR     *)
(* block is mapped to the entry block (Block 0).                             *)

C6_BlockNamesUnique ==
    Lowering
        => /\ ~HasDuplicateBlockNames(mir_func)
           /\ Cardinality(DOMAIN block_map) = Len(mir_func.blocks)
           /\ \A a, b \in DOMAIN block_map : a # b => block_map[a] # block_map[b]
           /\ \A a \in DOMAIN block_map : block_map[a] \in 0..(Len(bblocks) - 1)
           /\ mir_func.blocks # <<>> => block_map[mir_func.blocks[1].name] = 0

-----------------------------------------------------------------------------
(* C9.  Control-flow edges: after a br terminator naming a block of the      *)
(* function is lowered, the last operation of its block is a jump to the     *)
(* backend block block_map gives for that name; after brz or brnz it is a    *)
(* conditional jump whose taken target is that block.                        *)

C9_JumpGoesToNamedBlock ==
    (JustTerminated /\ TargetOf(lowered_block.terminator) # None
                    /\ TargetOf(lowered_block.terminator)[1] \in DOMAIN block_map)
        => LET code == bblocks[block_map[lowered_block.name] + 1].code
               last == code[Len(code)]
               target == block_map[TargetOf(lowered_block.terminator)[1]]
           IN  /\ last.dest = Some(target)
               /\ last.op = IF lowered_block.terminator.op = "br" THEN "jump" ELSE "brif"

-----------------------------------------------------------------------------
(* C10.  When compile_function reaches builder.finalize, every backend block *)
(* it created holds exactly one terminator, and that terminator is the last  *)
(* operation of the block.                                                   *)

C10_BlocksWellFormed ==
    pc = "finalize"
        => \A k \in 1..Len(bblocks) :
              LET code == bblocks[k].code IN
              /\ code # <<>>
              /\ IsTerminator(code[Len(code)])
              /\ \A j \in 1..(Len(code) - 1) : ~IsTerminator(code[j])

-----------------------------------------------------------------------------
(* C7.  Every optimization token configures the level of its alias group,    *)
(* every other token configures speed, the configuration never fails on the  *)
(* token, and compile_mir_to_object configures what the token `speed` does.  *)

AliasGroups ==
    {[level |-> "none", tokens |-> {"none", "0", "O0"}],
     [level |-> "speed", tokens |-> {"speed", "1", "O1"}],
     [level |-> "speed_and_size", tokens |-> {"speed_and_size", "2", "O2"}],
     [level |-> "best", tokens |-> {"best", "3", "O3"}],
     [level |-> "size", tokens |-> {"size", "s", "Os"}]}

Configured == pc \notin {"idle", "decode", "configure"} /\ Decoded

-----------------------------------------------------------------------------
(* C8.  omni_type_to_cranelift follows the reference table; any other name   *)
(* is an unsupported-type error whose message contains the name; and a       *)
(* function with such a name as its return type or a parameter type makes    *)
(* the compile fail with the output path neither created nor modified.       *)

TypeNames ==
    {T_int, T_float, T_double, T_bool, T_void, T_string, T_voidptr, T_ptr, T_widget,
     <<"*">>, <<"*", "i", "n", "t">>, <<"i", "n", "t", "*">>, <<"I", "n", "t">>,
     <<"i", "n", "t", " ">>, <<>>, <<"f", "l", "o", "a", "t", "6", "4">>,
     <<"v", "o", "i", "d", " ", "*">>, <<"s", "t", "r">>}

\* the reference table of the specification (Option: None for any other name)
TableType(name) ==
    IF name = T_int THEN Some("I32")
    ELSE IF name = T_float \/ name = T_double THEN Some("F64")
    ELSE IF name = T_bool THEN Some("I8")
    ELSE IF name = T_void THEN Some("I32")
    ELSE IF name = T_string \/ name = T_voidptr THEN Some("I64")
    ELSE IF name # <<>> /\ Head(name) = "*" THEN Some("I64")
    ELSE None

\* parameter types in declaration order, then the return type
DeclaredTypes(f) == [i \in 1..Len(f.params) |-> f.params[i].param_type] \o <<f.return_type>>

HasUnsupportedType(f) == \E i \in 1..Len(DeclaredTypes(f)) : TableType(DeclaredTypes(f)[i]) = None

FirstUnsupported(f) ==
    DeclaredTypes(f)[CHOOSE i \in 1..Len(DeclaredTypes(f)) :
                        /\ TableType(DeclaredTypes(f)[i]) = None
                        /\ \A j \in 1..(i - 1) : TableType(DeclaredTypes(f)[j]) # None]

C8_TypeMapping ==
    /\ \A t \in TypeNames :
          LET r == omni_type_to_cranelift(t) IN
          IF TableType(t) # None
          THEN r.ok /\ r.ty = TableType(t)[1]
          ELSE ~r.ok /\ r.err.kind = "MirParse" /\ EndsWith(r.err.msg, t) /\ Len(r.err.msg) > Len(t)
    /\ Lowering
          => /\ ~HasUnsupportedType(mir_func)
             /\ sig.params = [i \in 1..Len(mir_func.params) |->
                                 TableType(mir_func.params[i].param_type)[1]]
             /\ sig.returns = <<TableType(mir_func.return_type)[1]>>
             /\ bblocks[1].params = sig.params
    /\ \A k \in 1..Len(defined) : ~HasUnsupportedType(funcs[k])
    /\ (pc \in {"ret", "done"} /\ fi \in 1..Len(funcs) /\ HasUnsupportedType(funcs[fi]))
          => /\ result.kind = "MirParse"
             /\ EndsWith(result.msg, FirstUnsupported(funcs[fi]))
             /\ result.msg[1] = "Unsupported type: "
    /\ (Returned /\ \E k \in 1..Len(funcs) : HasUnsupportedType(funcs[k]))
          => /\ status[1] # 0
             /\ file = before
             /\ writes = 0

\* the second function has return type `widget`; the call failed naming it and an
\* older file at the output path is as it was
C8_Witness ==
    /\ Returned
    /\ entry \in CompileEntries
    /\ Len(funcs) = 2
    /\ funcs[2].return_type = T_widget
    /\ Len(defined) = 1
    /\ EndsWith(result.msg, T_widget)
    /\ status[1] # 0
    /\ before = Stale
    /\ file = Stale

====
